---- MODULE Spec2Model ----
(***************************************************************************)
(* A model of pomerium's authorize Evaluator (authorize/evaluator):        *)
(*   - New / updateStore / getJWK: construction of an Evaluator over a      *)
(*     shared store, step by step (each store update is its own step);      *)
(*   - Evaluate: the errgroup fan-out into the policy unit and the header   *)
(*     unit, the join (eg.Wait) and the merge into a Result;                *)
(*   - the pure helpers evaluateInternal, getClientCA and                   *)
(*     carryOverJWTAssertion.                                               *)
(* Collaborators whose code is not part of the sources (the store, the     *)
(* HeadersEvaluator, the PolicyEvaluator, Policy.RouteID,                   *)
(* isValidClientCertificate, cryptutil) are modelled from the design text.  *)
(***************************************************************************)
EXTENDS Integers, Sequences, FiniteSets, TLC

VARIABLES
  store,          \* the shared store: serviceAccount, claimHeaders, routePolicies, signingKey
  storeSnap,      \* ghost: for each store field, the number of the config that wrote it
  generated,      \* number of signing keys generated so far (names the fresh keys)
  ev,             \* the Evaluator requests are served with (the last one New returned)
  reloads,        \* number of calls of New after start-up
  newPc,          \* position of the running New
  newCfg,         \* its evaluatorConfig
  newJwk,         \* the jwk computed by getJWK
  newE,           \* the Evaluator under construction
  newI,           \* index of the policy loop of New
  storeBefore,    \* ghost: the store when New was called
  evalPc,         \* position of the running Evaluate: idle, running, returned
  req,            \* its *Request
  reqEv,          \* the Evaluator it was called on
  polPc,          \* position of the policy goroutine
  hdrPc,          \* position of the header goroutine
  policyOutput,   \* *PolicyResponse (<<>> is nil)
  headersOutput,  \* *HeadersResponse (<<>> is nil)
  unitErr,        \* the error each goroutine returned ("nil": none)
  egErr,          \* errgroup: the first error
  ctxDone,        \* errgroup: the derived context is cancelled
  calls,          \* ghost: collaborator calls made for this request, in order
  validFact,      \* evaluatePolicy's local isValidClientCertificate
  certFact,       \* ghost: what isValidClientCertificate returned for this request (<<>>: not called)
  obs,            \* ghost: the snapshots this request has read from
  result,         \* what Evaluate returned: *Result (<<>> is nil)
  retErr,         \* and its error
  last,           \* ghost: the previous evaluation, its request and outcome (<<>>: none)
  se,             \* the running safeEval: position, arguments, named results
  px,             \* the Proxy: the *Proxy the process holds, the running OnConfigChange
  co              \* a call of carryOverJWTAssertion on its own: dst, src, position

vars == <<store, storeSnap, generated, ev, reloads, newPc, newCfg, newJwk, newE,
          newI, storeBefore, evalPc, req, reqEv, polPc, hdrPc, policyOutput,
          headersOutput, unitErr, egErr, ctxDone, calls, validFact, certFact, obs,
          result, retErr, last, se, px, co>>

newVars == <<store, storeSnap, generated, ev, reloads, newPc, newCfg, newJwk,
             newE, newI, storeBefore>>

evalVars == <<evalPc, req, reqEv, polPc, hdrPc, policyOutput, headersOutput,
              unitErr, egErr, ctxDone, calls, validFact, certFact, obs, result,
              retErr>>

auxVars == <<last, se, px, co>>

\* Number of reloads (calls of New after start-up) a behaviour may hold.
MaxReloads == 1

\* Number of calls of Proxy.OnConfigChange a behaviour may hold.
MaxConfigChanges == 2

----------------------------------------------------------------------------
\* Pointers: <<>> is nil, <<x>> points to x.
Nil == <<>>
Ptr(x) == <<x>>
Deref(p) == p[1]
NoErr == "nil"

\* Reason codes (pkg/policy/criteria).
ReasonUserUnauthenticated == "user-unauthenticated"
ReasonPomeriumRoute == "pomerium-route"
ReasonRouteNotFound == "route-not-found"
ReasonInvalidClientCertificate == "invalid-client-certificate"
ReasonUserOK == "user-ok"

\* RuleResult: the zero value and the constructor.
ZeroRuleResult == [Value |-> FALSE, Reasons |-> <<>>]
NewRuleResult(value, reason) == [Value |-> value, Reasons |-> <<reason>>]

\* A PolicyResponse literal sets only some fields; the rest are zero.
PolicyResponse(allow, deny, traces) == [Allow |-> allow, Deny |-> deny, Traces |-> traces]

\* The two internal paths that require a logged-in user.
WebauthnPath == "/.pomerium/webauthn"
JwtPath == "/.pomerium/jwt"

\* Canonical header keys.
JwtForKey == "X-Pomerium-Jwt-Assertion-For"
JwtKey == "X-Pomerium-Jwt-Assertion"
ClaimKey == "X-Pomerium-Claim-Email"
HeaderKeys == {JwtForKey, JwtKey, ClaimKey}

----------------------------------------------------------------------------
\* config.Policy, reduced to the fields the evaluator reads: the identity
\* fields the route id is computed from (From, To) and the route-specific
\* client CA (base64).
PA == [From |-> "a", To |-> "u1", TLSDownstreamClientCA |-> ""]
PACa == [From |-> "a", To |-> "u1", TLSDownstreamClientCA |-> "Y2Ey"]
PB == [From |-> "b", To |-> "u1", TLSDownstreamClientCA |-> "!!"]
PC == [From |-> "c", To |-> "u2", TLSDownstreamClientCA |-> ""]
PNoTo == [From |-> "a", To |-> "", TLSDownstreamClientCA |-> ""]

FromCode(s) == CASE s = "a" -> 1 [] s = "b" -> 2 [] s = "c" -> 3 [] OTHER -> 0
ToCode(s) == CASE s = "u1" -> 1 [] s = "u2" -> 2 [] OTHER -> 0

\* Policy.RouteID: a hash of the identity fields; a policy with no
\* destination has no route id (an error).
RouteID(p) ==
  IF p.To = ""
    THEN [id |-> 0, err |-> "routeid"]
    ELSE [id |-> (FromCode(p.From) * 31 + ToCode(p.To) * 7) % 64, err |-> NoErr]

\* base64.StdEncoding.DecodeString on the strings used here.
B64Decode(s) ==
  CASE s = "Y2Ex" -> [bs |-> "ca1", err |-> NoErr]
    [] s = "Y2Ey" -> [bs |-> "ca2", err |-> NoErr]
    [] s = "" -> [bs |-> "", err |-> NoErr]
    [] OTHER -> [bs |-> "", err |-> "base64"]

\* ClientCertificateInfo values: none presented, a leaf of ca1, a leaf of
\* ca2, a revoked leaf of ca1, and bytes that do not parse.
NoCert == [Presented |-> FALSE, Leaf |-> "", Intermediates |-> ""]
Cert(leaf) == [Presented |-> TRUE, Leaf |-> leaf, Intermediates |-> ""]
Issuer(leaf) ==
  CASE leaf = "leaf1" -> "ca1" [] leaf = "leaf1r" -> "ca1"
    [] leaf = "leaf2" -> "ca2" [] OTHER -> "none"
Revoked(crl) == IF crl = "crl-r" THEN {"leaf1r"} ELSE {}

\* isValidClientCertificate(ca, crl, certInfo, constraints): not presented is
\* false; unparsable bytes are an error; otherwise the chain must lead to ca
\* and the leaf must not be on the CRL.
isValidClientCertificate(ca, crl, certInfo) ==
  IF ~certInfo.Presented
    THEN [valid |-> FALSE, err |-> NoErr]
    ELSE IF certInfo.Leaf = "garbage"
      THEN [valid |-> FALSE, err |-> "cert"]
      ELSE [valid |-> Issuer(certInfo.Leaf) = ca /\ certInfo.Leaf \notin Revoked(crl),
            err |-> NoErr]

\* evaluateInternal, with the reserved-path check dropped (mutant).
evaluateInternal_NoLoginCheck(r) ==
  [out |-> Ptr(PolicyResponse(NewRuleResult(TRUE, ReasonPomeriumRoute), ZeroRuleResult, <<>>)),
   err |-> NoErr]

\* evaluateInternal, with the reserved-path check applied to every path (mutant).
evaluateInternal_AllPaths(r) ==
  IF r.Session.ID = ""
    THEN [out |-> Ptr(PolicyResponse(NewRuleResult(FALSE, ReasonUserUnauthenticated),
                                     ZeroRuleResult, <<>>)),
          err |-> NoErr]
    ELSE [out |-> Ptr(PolicyResponse(NewRuleResult(TRUE, ReasonPomeriumRoute),
                                     ZeroRuleResult, <<>>)),
          err |-> NoErr]

\* Evaluator.evaluateInternal.
evaluateInternal(r) ==
  IF (r.HTTP.Path = WebauthnPath \/ r.HTTP.Path = JwtPath) /\ r.Session.ID = ""
    THEN [out |-> Ptr(PolicyResponse(NewRuleResult(FALSE, ReasonUserUnauthenticated),
                                     ZeroRuleResult, <<>>)),
          err |-> NoErr]
    ELSE [out |-> Ptr(PolicyResponse(NewRuleResult(TRUE, ReasonPomeriumRoute),
                                     ZeroRuleResult, <<>>)),
          err |-> NoErr]

\* getClientCA taking a route CA that does not decode for no override
\* (mutant).
getClientCA_DecodeErrorIgnored(e, policy) ==
  IF policy # Nil /\ Deref(policy).TLSDownstreamClientCA # ""
    THEN LET d == B64Decode(Deref(policy).TLSDownstreamClientCA) IN
         IF d.err # NoErr THEN [ca |-> e.clientCA, err |-> NoErr]
                          ELSE [ca |-> d.bs, err |-> NoErr]
    ELSE [ca |-> e.clientCA, err |-> NoErr]

\* Evaluator.getClientCA: the route-specific CA, decoded, or the global one.
getClientCA(e, policy) ==
  IF policy # Nil /\ Deref(policy).TLSDownstreamClientCA # ""
    THEN LET d == B64Decode(Deref(policy).TLSDownstreamClientCA)
         IN IF d.err # NoErr THEN [ca |-> "", err |-> d.err]
                             ELSE [ca |-> d.bs, err |-> NoErr]
    ELSE [ca |-> e.clientCA, err |-> NoErr]

\* The unmatched-route answer with the rule result in the Allow field (mutant).
RouteNotFoundResponse_InAllow ==
  PolicyResponse(NewRuleResult(TRUE, ReasonRouteNotFound), ZeroRuleResult, <<>>)

\* What evaluatePolicy answers for an unmatched route.
RouteNotFoundResponse ==
  PolicyResponse(ZeroRuleResult, NewRuleResult(TRUE, ReasonRouteNotFound), <<>>)

\* The outcome of the part of evaluatePolicy that precedes the call of
\* policyEvaluator.Evaluate: ret says whether evaluatePolicy returned there
\* (with out, err); otherwise id names the PolicyEvaluator to call and fact
\* is the IsValidClientCertificate it is given (fact means nothing when ret).
\* called lists the collaborator calls made.
Returned(out, err, called) ==
  [ret |-> TRUE, out |-> out, err |-> err, id |-> 0, fact |-> FALSE, called |-> called]
Proceeds(id, fact, called) ==
  [ret |-> FALSE, out |-> Nil, err |-> NoErr, id |-> id, fact |-> fact, called |-> called]

\* The certificate validation with its error taken for "invalid" (mutant).
validateCertificate_ErrorAsInvalid(e, r, id) ==
  LET ca == getClientCA(e, r.Policy) IN
  IF ca.err # NoErr
    THEN Returned(Nil, "clientca", <<<<"getClientCA">>>>)
    ELSE LET v == isValidClientCertificate(ca.ca, e.clientCRL, r.HTTP.ClientCertificate) IN
         Proceeds(id, v.valid, <<<<"getClientCA">>, <<"isValidClientCertificate", ca.ca>>>>)

\* evaluatePolicy from the certificate validation on (lines 211-220).
validateCertificate(e, r, id) ==
  LET ca == getClientCA(e, r.Policy) IN
  IF ca.err # NoErr
    THEN Returned(Nil, "clientca", <<<<"getClientCA">>>>)
    ELSE LET v == isValidClientCertificate(ca.ca, e.clientCRL, r.HTTP.ClientCertificate) IN
         IF v.err # NoErr
           THEN Returned(Nil, "cert", <<<<"getClientCA">>, <<"isValidClientCertificate", ca.ca>>>>)
           ELSE Proceeds(id, v.valid, <<<<"getClientCA">>, <<"isValidClientCertificate", ca.ca>>>>)

\* evaluatePolicy answering an unregistered route id with an error (mutant).
evaluatePolicyHead_UnregisteredAsError(e, r) ==
  IF r.Policy = Nil
    THEN Returned(Ptr(RouteNotFoundResponse), NoErr, <<>>)
    ELSE LET rid == RouteID(Deref(r.Policy)) IN
         IF rid.err # NoErr
           THEN Returned(Nil, "routeid", <<>>)
           ELSE IF rid.id \notin DOMAIN e.policyEvaluators
             THEN Returned(Nil, "routenotfound", <<>>)
             ELSE validateCertificate(e, r, rid.id)

\* evaluatePolicy validating the certificate before it looks the route id
\* up (mutant).
evaluatePolicyHead_ValidateFirst(e, r) ==
  IF r.Policy = Nil
    THEN Returned(Ptr(RouteNotFoundResponse), NoErr, <<>>)
    ELSE LET rid == RouteID(Deref(r.Policy)) IN
         IF rid.err # NoErr
           THEN Returned(Nil, "routeid", <<>>)
           ELSE LET v == validateCertificate(e, r, rid.id) IN
                IF rid.id \notin DOMAIN e.policyEvaluators /\ ~v.ret
                  THEN Returned(Ptr(RouteNotFoundResponse), NoErr, v.called)
                  ELSE v

\* evaluatePolicy up to the call of policyEvaluator.Evaluate (lines 193-220).
evaluatePolicyHead(e, r) ==
  IF r.Policy = Nil
    THEN Returned(Ptr(RouteNotFoundResponse), NoErr, <<>>)
    ELSE LET rid == RouteID(Deref(r.Policy)) IN
         IF rid.err # NoErr
           THEN Returned(Nil, "routeid", <<>>)
           ELSE IF rid.id \notin DOMAIN e.policyEvaluators
             THEN Returned(Ptr(RouteNotFoundResponse), NoErr, <<>>)
             ELSE validateCertificate(e, r, rid.id)

\* PolicyEvaluator.Evaluate: the injected default rule denies an invalid
\* client certificate; the allow rule admits a logged-in user.
PolicyEvaluatorEvaluate(pe, preq) ==
  PolicyResponse(
    IF preq.Session.ID # "" THEN NewRuleResult(TRUE, ReasonUserOK)
                            ELSE NewRuleResult(FALSE, ReasonUserUnauthenticated),
    IF pe.addDefault /\ ~preq.IsValidClientCertificate
      THEN NewRuleResult(TRUE, ReasonInvalidClientCertificate)
      ELSE ZeroRuleResult,
    <<[rule |-> "allow", cert |-> preq.IsValidClientCertificate]>>)

\* http.Header.Set in the place of Add: the values under k are replaced
\* (mutant).
HeaderAdd_Set(h, k, v) == [h EXCEPT ![k] = <<v>>]

\* http.Header.Add.
HeaderAdd(h, k, v) == [h EXCEPT ![k] = Append(@, v)]

\* carryOverJWTAssertion, consulting the plain assertion header first (mutant).
carryOverJWTAssertion_PlainFirst(dst, src) ==
  IF JwtKey \in DOMAIN src /\ src[JwtKey] # ""
    THEN HeaderAdd(dst, JwtForKey, src[JwtKey])
    ELSE IF JwtForKey \in DOMAIN src /\ src[JwtForKey] # ""
      THEN HeaderAdd(dst, JwtForKey, src[JwtForKey])
      ELSE dst

\* carryOverJWTAssertion(dst, src): dst after the call.
carryOverJWTAssertion(dst, src) ==
  IF JwtForKey \in DOMAIN src /\ src[JwtForKey] # ""
    THEN HeaderAdd(dst, JwtForKey, src[JwtForKey])
    ELSE IF JwtKey \in DOMAIN src /\ src[JwtKey] # ""
      THEN HeaderAdd(dst, JwtForKey, src[JwtKey])
      ELSE dst

\* HeadersEvaluator.Evaluate: the assertion signed with the store's current
\* signing key, and the claim headers of the store's mapping.
HeadersEvaluatorEvaluate(st, hreq) ==
  [Headers |-> [k \in HeaderKeys |->
      CASE k = JwtKey -> <<<<"jwt", st.signingKey, hreq.Session.ID>>>>
        [] k = ClaimKey -> <<<<"claim", st.claimHeaders>>>>
        [] OTHER -> <<>>]]

----------------------------------------------------------------------------
\* Construction: New, updateStore, getJWK.

\* cryptutil.PrivateJWKFromBytes: the key the bytes encode, or an error.
PrivateJWKFromBytes(bytes) ==
  IF bytes = "bad" THEN [jwk |-> Nil, err |-> "badkey"]
                   ELSE [jwk |-> Ptr(<<"key", bytes>>), err |-> NoErr]

\* cryptutil.NewSigningKey followed by EncodePrivateKey: the bytes of a fresh
\* key, the n-th this process generated.
NewSigningKeyBytes(n) == <<"generated", n>>

\* getJWK answering bytes that do not decode with a zero key and no error
\* (mutant).
getJWK_ZeroKeyOnError(cfg, n) ==
  IF cfg.signingKey = ""
    THEN [jwk |-> Ptr(<<"key", NewSigningKeyBytes(n + 1)>>), err |-> NoErr,
          generated |-> n + 1]
    ELSE LET k == PrivateJWKFromBytes(cfg.signingKey)
         IN IF k.err # NoErr
              THEN [jwk |-> Ptr(<<"zero", cfg.signingKey>>), err |-> NoErr, generated |-> n]
              ELSE [jwk |-> k.jwk, err |-> NoErr, generated |-> n]

\* getJWK(cfg): with no signing key in the config a key is generated, else
\* the config's bytes are decoded. n counts the keys generated so far.
getJWK(cfg, n) ==
  IF cfg.signingKey = ""
    THEN [jwk |-> Ptr(<<"key", NewSigningKeyBytes(n + 1)>>), err |-> NoErr,
          generated |-> n + 1]
    ELSE LET k == PrivateJWKFromBytes(cfg.signingKey)
         IN [jwk |-> k.jwk, err |-> k.err, generated |-> n]

\* The store's four Update methods.
UpdateGoogleCloudServerlessAuthenticationServiceAccount(st, v) ==
  [st EXCEPT !.serviceAccount = v]
UpdateJWTClaimHeaders(st, v) == [st EXCEPT !.claimHeaders = v]
UpdateRoutePolicies(st, v) == [st EXCEPT !.routePolicies = v]
UpdateSigningKey(st, jwk) == [st EXCEPT !.signingKey = Deref(jwk)]

\* NewPolicyEvaluator for one policy of the config.
NewPolicyEvaluator(policy, addDefault) == [policy |-> policy, addDefault |-> addDefault]

\* e.policyEvaluators[id] = policyEvaluator.
Register(pes, id, pe) == [x \in DOMAIN pes \cup {id} |-> IF x = id THEN pe ELSE pes[x]]

\* The policy loop of New over cfg.policies[i..], when no step of it fails.
RECURSIVE RegisterAll(_, _, _, _)
RegisterAll(pes, policies, i, addDefault) ==
  IF i > Len(policies)
    THEN pes
    ELSE RegisterAll(Register(pes, RouteID(policies[i]).id,
                              NewPolicyEvaluator(policies[i], addDefault)),
                     policies, i + 1, addDefault)

\* e := &Evaluator{store: store}
EmptyEvaluator(snap) ==
  [policyEvaluators |-> <<>>, clientCA |-> "", clientCRL |-> "", snap |-> snap]

\* The configs the process starts with: New succeeds on each.
StartConfigs ==
  [policies : {<<PA, PB>>}, clientCA : {"ca1"}, clientCRL : {"crl-r"},
   addDefaultClientCertificateRule : BOOLEAN, signingKey : {"k1"},
   serviceAccount : {"sa1"}, jwtClaimsHeaders : {"ch1"}]

\* The start config of the behaviours with reloads.
ReloadStartConfigs == {cfg \in StartConfigs : cfg.addDefaultClientCertificateRule}

\* The configs a reload may bring.
ReloadConfigs ==
  [policies : {<<PC>>, <<PA, PNoTo>>}, clientCA : {"ca1"}, clientCRL : {"crl-r"},
   addDefaultClientCertificateRule : {TRUE}, signingKey : {"", "bad", "k1", "k2"},
   serviceAccount : {"sa1", "sa2"}, jwtClaimsHeaders : {"ch1", "ch2"}]

NoConfig == <<>>

\* The store and the Evaluator after New(cfg) returned without error on an
\* empty store.
StoreAfterNew(cfg) ==
  [serviceAccount |-> cfg.serviceAccount, claimHeaders |-> cfg.jwtClaimsHeaders,
   routePolicies |-> cfg.policies,
   signingKey |-> Deref(getJWK(cfg, 0).jwk)]
EvaluatorAfterNew(cfg, snap) ==
  [policyEvaluators |-> RegisterAll(<<>>, cfg.policies, 1, cfg.addDefaultClientCertificateRule),
   clientCA |-> cfg.clientCA, clientCRL |-> cfg.clientCRL, snap |-> snap]

\* No Evaluate is running.
EvalIdle ==
  /\ evalPc = "idle" /\ req = Nil /\ reqEv = Nil /\ polPc = "idle" /\ hdrPc = "idle"
  /\ policyOutput = Nil /\ headersOutput = Nil
  /\ unitErr = [policy |-> NoErr, headers |-> NoErr]
  /\ egErr = NoErr /\ ctxDone = FALSE /\ calls = <<>> /\ validFact = FALSE
  /\ certFact = <<>>
  /\ obs = [policies |-> 0, key |-> 0]
  /\ result = Nil /\ retErr = NoErr

\* safeEval (lines 298-306). An error is nil (<<>>) or <<message>>; a value
\* given to panic is the nil interface value, a string or an error.
NilValue == [kind |-> "nil", text |-> ""]
PanicValues ==
  {NilValue, [kind |-> "string", text |-> "boom"], [kind |-> "string", text |-> ""],
   [kind |-> "error", text |-> "index out of range"]}

\* What q.Eval may return: a ResultSet (<<>> is the nil one) and an error.
ResultSets == {<<>>, <<"allow">>, <<"allow", "deny">>}
EvalErrors(ctx) ==
  {Nil, <<"eval_type_error">>} \cup (IF ctx = "cancelled" THEN {<<"context canceled">>} ELSE {})

\* The arguments of safeEval: the context, the prepared query, the options.
SafeEvalArgs == [ctx : {"live", "cancelled"}, q : {"allow", "deny"}, options : 0..1]

\* recover() in a deferred function: the value the running panic was raised
\* with, nil when no panic is running. The workflows build with Go 1.20.x
\* (.github/workflows/backport.yaml line 64), where panic(nil) makes
\* recover() return nil.
Recover(panicking) == IF panicking = Nil THEN NilValue ELSE Deref(panicking)

\* fmt.Errorf("%v", e): a non-nil error whose message is e as %v prints it
\* (a string as it is, an error by its Error()).
Errorf(e) == <<e.text>>

\* The deferred function of safeEval (lines 299-303): the named result err
\* after it ran.
safeEvalDeferred(panicking, err) ==
  LET e == Recover(panicking) IN
  IF e # NilValue THEN Errorf(e) ELSE err

\* No safeEval is running.
SafeEvalIdle ==
  [pc |-> "idle", args |-> <<>>, panicking |-> Nil, faulted |-> FALSE,
   resultSet |-> <<>>, err |-> Nil, ret |-> Nil]

\* The proxy (proxy/proxy.go). config.Options, as far as the proxy reads
\* them: the shared secret, the cookie secret and the number of policies.
ProxyOptions == [sharedKey : {"good", "bad"}, cookieSecret : {"good", "bad"}, policies : 0..1]
ProxyConfigs == [Options : ProxyOptions]

\* config.NewAtomicOptions(): an atomic value holding empty Options.
DefaultOptions == [sharedKey |-> "", cookieSecret |-> "", policies |-> 0]

\* ValidateOptions (lines 32-51): the shared secret and then the cookie
\* secret must be there and make a cipher.
ValidateOptions(o) ==
  IF o.sharedKey # "good" THEN "SHARED_SECRET"
  ELSE IF o.cookieSecret # "good" THEN "COOKIE_SECRET"
  ELSE NoErr

\* newProxyStateFromConfig: the state built from the config, or an error
\* for options that do not validate.
newProxyStateFromConfig(cfg) ==
  LET err == ValidateOptions(cfg.Options) IN
  IF err # NoErr THEN [state |-> Nil, err |-> err]
                 ELSE [state |-> Ptr([from |-> cfg.Options]), err |-> NoErr]

\* httputil.NewRouter(): a new router, the n-th this process built.
NewRouter(n) == [id |-> n, handlers |-> {}]

\* p.registerDashboardHandlers(r): r with the dashboard handlers.
registerDashboardHandlers(r) == [r EXCEPT !.handlers = @ \cup {"/.pomerium"}]

\* The Proxy New returns (lines 69-73) for a state, with the n-th router.
NewProxy(state, n) ==
  [state |-> state, currentOptions |-> DefaultOptions, currentRouter |-> NewRouter(n)]

\* Before proxy.New: the process holds a nil *Proxy.
ProxyStart ==
  [pc |-> "start", p |-> Nil, cfg |-> <<>>, routers |-> 0, calls |-> 0,
   lastGood |-> <<>>, served |-> 0]

\* The header maps carryOverJWTAssertion may be given as dst: under each key
\* the values a header evaluation has produced.
OutboundHeaders ==
  {h \in [HeaderKeys -> {<<>>, <<"E">>, <<"E", "F">>}] :
     \A k \in HeaderKeys \ {JwtForKey} : Len(h[k]) <= 1}

\* No call of carryOverJWTAssertion is under way.
CarryOverIdle == [pc |-> "idle", dst |-> <<>>, src |-> <<>>, dst0 |-> <<>>, src0 |-> <<>>]

\* The state after start-up: New has returned an Evaluator for a start
\* config (snapshot 1), no reload and no request is running.
InitFrom(configs) ==
  /\ \E cfg \in configs :
       /\ store = StoreAfterNew(cfg)
       /\ ev = EvaluatorAfterNew(cfg, 1)
       /\ generated = getJWK(cfg, 0).generated
  /\ storeSnap = [serviceAccount |-> 1, claimHeaders |-> 1, routePolicies |-> 1,
                  signingKey |-> 1]
  /\ reloads = 0 /\ newPc = "idle" /\ newCfg = NoConfig /\ newJwk = Nil
  /\ newE = Nil /\ newI = 0 /\ storeBefore = Nil
  /\ EvalIdle
  /\ last = Nil /\ se = SafeEvalIdle /\ px = ProxyStart
  /\ co = CarryOverIdle

Init == InitFrom(ReloadStartConfigs)
InitEvaluate == InitFrom(StartConfigs)

\* New is called with a config (a reload): e := &Evaluator{store: store};
\* cfg := getConfig(options...).
NewBegin ==
  /\ newPc = "idle" /\ reloads < MaxReloads
  /\ \E cfg \in ReloadConfigs : newCfg' = cfg
  /\ reloads' = reloads + 1
  /\ newE' = Ptr(EmptyEvaluator(reloads + 2))
  /\ storeBefore' = Ptr(store)
  /\ newPc' = "getJWK"
  /\ UNCHANGED <<store, storeSnap, generated, ev, newJwk, newI>>
  /\ UNCHANGED <<evalVars, auxVars>>

\* updateStore: jwk, err := getJWK(cfg); on an error updateStore and New return it.
UpdateStoreGetJWK ==
  /\ newPc = "getJWK"
  /\ LET r == getJWK(newCfg, generated) IN
       /\ generated' = r.generated
       /\ newJwk' = r.jwk
       /\ newPc' = IF r.err # NoErr THEN "failed" ELSE "updateServiceAccount"
  /\ UNCHANGED <<store, storeSnap, ev, reloads, newCfg, newE, newI, storeBefore>>
  /\ UNCHANGED <<evalVars, auxVars>>

\* updateStore: the four store updates, one after the other.
UpdateStoreServiceAccount ==
  /\ newPc = "updateServiceAccount"
  /\ store' = UpdateGoogleCloudServerlessAuthenticationServiceAccount(store, newCfg.serviceAccount)
  /\ storeSnap' = [storeSnap EXCEPT !.serviceAccount = Deref(newE).snap]
  /\ newPc' = "updateClaimHeaders"
  /\ UNCHANGED <<generated, ev, reloads, newCfg, newJwk, newE, newI, storeBefore>>
  /\ UNCHANGED <<evalVars, auxVars>>

UpdateStoreClaimHeaders ==
  /\ newPc = "updateClaimHeaders"
  /\ store' = UpdateJWTClaimHeaders(store, newCfg.jwtClaimsHeaders)
  /\ storeSnap' = [storeSnap EXCEPT !.claimHeaders = Deref(newE).snap]
  /\ newPc' = "updateRoutePolicies"
  /\ UNCHANGED <<generated, ev, reloads, newCfg, newJwk, newE, newI, storeBefore>>
  /\ UNCHANGED <<evalVars, auxVars>>

UpdateStoreRoutePolicies ==
  /\ newPc = "updateRoutePolicies"
  /\ store' = UpdateRoutePolicies(store, newCfg.policies)
  /\ storeSnap' = [storeSnap EXCEPT !.routePolicies = Deref(newE).snap]
  /\ newPc' = "updateSigningKey"
  /\ UNCHANGED <<generated, ev, reloads, newCfg, newJwk, newE, newI, storeBefore>>
  /\ UNCHANGED <<evalVars, auxVars>>

UpdateStoreSigningKey ==
  /\ newPc = "updateSigningKey"
  /\ store' = UpdateSigningKey(store, newJwk)
  /\ storeSnap' = [storeSnap EXCEPT !.signingKey = Deref(newE).snap]
  /\ newPc' = "newHeadersEvaluator"
  /\ UNCHANGED <<generated, ev, reloads, newCfg, newJwk, newE, newI, storeBefore>>
  /\ UNCHANGED <<evalVars, auxVars>>

\* New: e.headersEvaluators, err = NewHeadersEvaluator(ctx, store), which may
\* fail; then the client CA, CRL and constraints are copied from the config.
NewHeadersEvaluator ==
  /\ newPc = "newHeadersEvaluator"
  /\ \E fails \in BOOLEAN :
       IF fails
         THEN newPc' = "failed" /\ UNCHANGED <<newE, newI>>
         ELSE /\ newE' = Ptr([Deref(newE) EXCEPT !.clientCA = newCfg.clientCA,
                                                 !.clientCRL = newCfg.clientCRL])
              /\ newI' = 1
              /\ newPc' = "policies"
  /\ UNCHANGED <<store, storeSnap, generated, ev, reloads, newCfg, newJwk, storeBefore>>
  /\ UNCHANGED <<evalVars, auxVars>>

\* New: one round of the loop over cfg.policies; RouteID or
\* NewPolicyEvaluator may fail. After the last round New returns e.
NewPolicyLoop ==
  /\ newPc = "policies"
  /\ IF newI > Len(newCfg.policies)
       THEN newPc' = "done" /\ UNCHANGED <<newE, newI>>
       ELSE LET policy == newCfg.policies[newI]
                rid == RouteID(policy)
            IN \E fails \in BOOLEAN :
                 IF rid.err # NoErr \/ fails
                   THEN newPc' = "failed" /\ UNCHANGED <<newE, newI>>
                   ELSE /\ newE' = Ptr([Deref(newE) EXCEPT !.policyEvaluators =
                               Register(@, rid.id,
                                 NewPolicyEvaluator(policy,
                                   newCfg.addDefaultClientCertificateRule))])
                        /\ newI' = newI + 1
                        /\ newPc' = "policies"
  /\ UNCHANGED <<store, storeSnap, generated, ev, reloads, newCfg, newJwk, storeBefore>>
  /\ UNCHANGED <<evalVars, auxVars>>

\* New has returned: with an Evaluator, which from now on serves the
\* requests, or with an error, and then the previous Evaluator stays.
NewReturn ==
  /\ newPc \in {"done", "failed"}
  /\ ev' = IF newPc = "done" THEN Deref(newE) ELSE ev
  /\ newPc' = "idle" /\ newCfg' = NoConfig /\ newJwk' = Nil /\ newE' = Nil
  /\ newI' = 0 /\ storeBefore' = Nil
  /\ UNCHANGED <<store, storeSnap, generated, reloads>>
  /\ UNCHANGED <<evalVars, auxVars>>

----------------------------------------------------------------------------
\* Evaluate.

\* map[string]string values of the inbound headers: each of the two
\* assertion headers is absent, empty or set.
InboundHeaders ==
  {h \in UNION {[d -> {"", "A", "B"}] : d \in SUBSET {JwtForKey, JwtKey}} :
     /\ (JwtForKey \in DOMAIN h => h[JwtForKey] \in {"", "A"})
     /\ (JwtKey \in DOMAIN h => h[JwtKey] \in {"", "B"})}

NoHeaders == CHOOSE h \in InboundHeaders : DOMAIN h = {}

RequestHTTP(path, headers, cert) ==
  [Path |-> path, Headers |-> headers, ClientCertificate |-> cert]

\* The requests of the evaluation specification.
Requests ==
  [IsInternal : BOOLEAN,
   Policy : {Nil, Ptr(PA), Ptr(PACa), Ptr(PB), Ptr(PC), Ptr(PNoTo)},
   HTTP : {RequestHTTP(p, h, c) :
             p \in {WebauthnPath, JwtPath, "/"}, h \in InboundHeaders,
             c \in {NoCert, Cert("leaf1"), Cert("leaf2"), Cert("leaf1r"), Cert("garbage")}},
   Session : [ID : {"", "s1"}]]

\* The requests that run beside a reload.
ReloadRequests ==
  [IsInternal : BOOLEAN,
   Policy : {Ptr(PA)},
   HTTP : {RequestHTTP("/", NoHeaders, Cert("leaf1"))},
   Session : [ID : {"s1"}]]

\* Evaluate(ctx, req) is called on the current Evaluator:
\* eg, ctx := errgroup.WithContext(ctx) and the two eg.Go calls.
EvaluateBegin(requests) ==
  /\ evalPc = "idle"
  /\ \E r \in requests : req' = Ptr(r)
  /\ reqEv' = Ptr(ev)
  /\ evalPc' = "running" /\ polPc' = "start" /\ hdrPc' = "start"
  /\ UNCHANGED <<policyOutput, headersOutput, unitErr, egErr, ctxDone, calls,
                 validFact, certFact, obs, result, retErr>>
  /\ UNCHANGED <<newVars, auxVars>>

EvaluateBeginAny == EvaluateBegin(Requests)
EvaluateBeginReload == EvaluateBegin(ReloadRequests)

\* The two closures assigning to one err variable declared in Evaluate
\* (mutant).
SetUnitErr_Shared(unit, err) == [policy |-> err, headers |-> err]

\* Each closure declares its own err (var err error, lines 147 and 158) and
\* assigns the error of its call to it.
SetUnitErr(unit, err) == [unitErr EXCEPT ![unit] = err]

\* errgroup keeping the error of the goroutine that failed last (mutant).
FirstError_LastWins(err) == err

\* errgroup: a goroutine that returns a non-nil error records it if it is
\* the first and cancels the context.
FirstError(err) == IF egErr = NoErr THEN err ELSE egErr

\* The policy goroutine up to its return or to the call of
\* policyEvaluator.Evaluate.
PolicyUnitStart ==
  /\ evalPc = "running" /\ polPc = "start"
  /\ LET r == Deref(req)
         e == Deref(reqEv)
         h == IF r.IsInternal
                THEN LET i == evaluateInternal(r) IN Returned(i.out, i.err, <<>>)
                ELSE evaluatePolicyHead(e, r)
     IN /\ calls' = calls \o h.called
        /\ obs' = IF r.IsInternal \/ r.Policy = Nil \/ RouteID(Deref(r.Policy)).err # NoErr
                    THEN obs ELSE [obs EXCEPT !.policies = e.snap]
        /\ certFact' = IF \E k \in DOMAIN h.called : h.called[k][1] = "isValidClientCertificate"
                          THEN <<isValidClientCertificate(getClientCA(e, r.Policy).ca,
                                   e.clientCRL, r.HTTP.ClientCertificate)>>
                          ELSE certFact
        /\ IF h.ret
             THEN /\ policyOutput' = h.out
                  /\ unitErr' = SetUnitErr("policy", h.err)
                  /\ egErr' = IF h.err # NoErr THEN FirstError(h.err) ELSE egErr
                  /\ ctxDone' = (ctxDone \/ h.err # NoErr)
                  /\ polPc' = "done"
                  /\ UNCHANGED validFact
             ELSE /\ polPc' = "evaluate"
                  /\ validFact' = h.fact
                  /\ UNCHANGED <<policyOutput, unitErr, egErr, ctxDone>>
  /\ UNCHANGED <<evalPc, req, reqEv, hdrPc, headersOutput, result, retErr>>
  /\ UNCHANGED <<newVars, auxVars>>

\* The PolicyRequest with the certificate taken for valid (mutant).
PolicyRequest_FactTrue(r, fact) ==
  [HTTP |-> r.HTTP, Session |-> r.Session, IsValidClientCertificate |-> TRUE]

\* The PolicyRequest evaluatePolicy builds (lines 222-226).
PolicyRequest(r, fact) ==
  [HTTP |-> r.HTTP, Session |-> r.Session, IsValidClientCertificate |-> fact]

\* The policy goroutine: policyEvaluator.Evaluate, which answers or fails
\* (a fault of the rule engine, a cancelled context).
PolicyUnitEvaluate ==
  /\ evalPc = "running" /\ polPc = "evaluate"
  /\ LET r == Deref(req)
         pe == Deref(reqEv).policyEvaluators[RouteID(Deref(r.Policy)).id]
         preq == PolicyRequest(r, validFact)
     IN /\ calls' = Append(calls, <<"PolicyEvaluator.Evaluate", preq.IsValidClientCertificate>>)
        /\ \E fails \in BOOLEAN :
             IF fails
               THEN /\ policyOutput' = Nil
                    /\ unitErr' = SetUnitErr("policy", "evaluation")
                    /\ egErr' = FirstError("evaluation")
                    /\ ctxDone' = TRUE
               ELSE /\ policyOutput' = Ptr(PolicyEvaluatorEvaluate(pe, preq))
                    /\ UNCHANGED <<unitErr, egErr, ctxDone>>
  /\ polPc' = "done"
  /\ UNCHANGED <<evalPc, req, reqEv, hdrPc, headersOutput, validFact, certFact, obs,
                 result, retErr>>
  /\ UNCHANGED <<newVars, auxVars>>

\* NewHeadersRequestFromPolicy(req.Policy, req.HTTP), with the session.
HeadersRequest(r) == [Policy |-> r.Policy, HTTP |-> r.HTTP, Session |-> r.Session]

\* evaluateHeaders reading the policy unit's output while that unit may
\* still run (mutant): the carry-over is applied only once it is there.
evaluateHeaders_ReadsPolicyOutput(r, res, err) ==
  IF err # NoErr
    THEN [out |-> Nil, err |-> err]
    ELSE [out |-> Ptr([Headers |-> IF policyOutput # Nil
                                     THEN carryOverJWTAssertion(res.Headers, r.HTTP.Headers)
                                     ELSE res.Headers]),
          err |-> NoErr]

\* evaluateHeaders, given the answer (res, err) of headersEvaluators.Evaluate:
\* an error is returned as it is, else the carry-over is applied to res.
evaluateHeaders(r, res, err) ==
  IF err # NoErr
    THEN [out |-> Nil, err |-> err]
    ELSE [out |-> Ptr([Headers |-> carryOverJWTAssertion(res.Headers, r.HTTP.Headers)]),
          err |-> NoErr]

\* The header goroutine: evaluateHeaders; headersEvaluators.Evaluate reads
\* the store as it is now, and answers or fails.
HeadersUnit ==
  /\ evalPc = "running" /\ hdrPc = "start"
  /\ LET r == Deref(req) IN
     \E fails \in BOOLEAN :
       LET res == HeadersEvaluatorEvaluate(store, HeadersRequest(r))
           h == evaluateHeaders(r, res, IF fails THEN "headers" ELSE NoErr)
       IN /\ headersOutput' = h.out
          /\ unitErr' = SetUnitErr("headers", h.err)
          /\ egErr' = IF h.err # NoErr THEN FirstError(h.err) ELSE egErr
          /\ ctxDone' = (ctxDone \/ h.err # NoErr)
  /\ calls' = Append(calls, <<"HeadersEvaluator.Evaluate">>)
  /\ obs' = [obs EXCEPT !.key = storeSnap.signingKey]
  /\ hdrPc' = "done"
  /\ UNCHANGED <<evalPc, req, reqEv, polPc, policyOutput, validFact, certFact, result,
                 retErr>>
  /\ UNCHANGED <<newVars, auxVars>>

\* The merge leaving the traces of the policy unit out (mutant).
Merge_TracesDropped(err, po, ho) ==
  IF err # NoErr
    THEN [res |-> Nil, err |-> err]
    ELSE [res |-> Ptr([Allow |-> Deref(po).Allow, Deny |-> Deref(po).Deny,
                       Headers |-> Deref(ho).Headers, Traces |-> <<>>]),
          err |-> NoErr]

\* The merge that coerces an error of the policy unit into a Deny (mutant).
Merge_ErrorAsDeny(err, po, ho) ==
  IF err # NoErr
    THEN [res |-> Ptr([Allow |-> ZeroRuleResult,
                       Deny |-> NewRuleResult(TRUE, "error"),
                       Headers |-> [k \in HeaderKeys |-> <<>>], Traces |-> <<>>]),
          err |-> NoErr]
    ELSE [res |-> Ptr([Allow |-> Deref(po).Allow, Deny |-> Deref(po).Deny,
                       Headers |-> Deref(ho).Headers, Traces |-> Deref(po).Traces]),
          err |-> NoErr]

\* Evaluate after err := eg.Wait() (lines 164-174).
Merge(err, po, ho) ==
  IF err # NoErr
    THEN [res |-> Nil, err |-> err]
    ELSE [res |-> Ptr([Allow |-> Deref(po).Allow, Deny |-> Deref(po).Deny,
                       Headers |-> Deref(ho).Headers, Traces |-> Deref(po).Traces]),
          err |-> NoErr]

\* eg.Wait() returns once both goroutines have returned, with the first
\* error, and Evaluate returns.
EvaluateWait ==
  /\ evalPc = "running" /\ polPc = "done" /\ hdrPc = "done"
  /\ LET m == Merge(egErr, policyOutput, headersOutput) IN
       /\ result' = m.res
       /\ retErr' = m.err
  /\ ctxDone' = TRUE
  /\ evalPc' = "returned"
  /\ UNCHANGED <<req, reqEv, polPc, hdrPc, policyOutput, headersOutput, unitErr,
                 egErr, calls, validFact, certFact, obs>>
  /\ UNCHANGED <<newVars, auxVars>>

\* The locals of a finished Evaluate are gone.
EvaluateReset ==
  /\ evalPc' = "idle" /\ req' = Nil /\ reqEv' = Nil /\ polPc' = "idle" /\ hdrPc' = "idle"
  /\ policyOutput' = Nil /\ headersOutput' = Nil
  /\ unitErr' = [policy |-> NoErr, headers |-> NoErr]
  /\ egErr' = NoErr /\ ctxDone' = FALSE /\ calls' = <<>> /\ validFact' = FALSE
  /\ certFact' = <<>>
  /\ obs' = [policies |-> 0, key |-> 0]
  /\ result' = Nil /\ retErr' = NoErr

\* The caller is done with the result; the next request may come.
EvaluateEnd ==
  /\ evalPc = "returned"
  /\ EvaluateReset
  /\ UNCHANGED <<newVars, auxVars>>

\* The requests that are evaluated twice.
RepeatRequests ==
  {r \in Requests :
     /\ r.HTTP.Path \in {JwtPath, "/"}
     /\ r.HTTP.Headers \in {NoHeaders} \cup
          {h \in InboundHeaders : DOMAIN h = {JwtForKey, JwtKey} /\ h[JwtForKey] = "A"}}

\* Evaluate is called with a request, and after it with the same request
\* again, on the same Evaluator and store.
EvaluateBeginRepeat ==
  IF last = Nil THEN EvaluateBegin(RepeatRequests)
                ELSE EvaluateBegin({Deref(last).req})

\* The caller keeps what the evaluation returned, to compare the next
\* evaluation of the same request with it.
EvaluateEndKeep ==
  /\ evalPc = "returned"
  /\ last' = Ptr([req |-> Deref(req), calls |-> calls, unitErr |-> unitErr,
                  result |-> result, retErr |-> retErr])
  /\ EvaluateReset
  /\ UNCHANGED <<newVars, se, px, co>>

----------------------------------------------------------------------------
\* safeEval, step by step.

\* safeEval is called: the named results are nil, the deferred function is
\* registered.
SafeEvalCall ==
  /\ se.pc = "idle"
  /\ \E a \in SafeEvalArgs :
       se' = [SafeEvalIdle EXCEPT !.pc = "eval", !.args = a]
  /\ UNCHANGED <<newVars, evalVars, last, px, co>>

\* q.Eval returns: resultSet, err = q.Eval(ctx, options...) (line 304).
SafeEvalReturns ==
  /\ se.pc = "eval"
  /\ \E rs \in ResultSets, err \in EvalErrors(se.args.ctx) :
       se' = [se EXCEPT !.pc = "deferred", !.resultSet = rs, !.err = err]
  /\ UNCHANGED <<newVars, evalVars, last, px, co>>

\* q.Eval panics: the assignment of line 304 does not happen.
SafeEvalPanics ==
  /\ se.pc = "eval"
  /\ \E v \in PanicValues :
       se' = [se EXCEPT !.pc = "deferred", !.panicking = Ptr(v), !.faulted = TRUE]
  /\ UNCHANGED <<newVars, evalVars, last, px, co>>

\* The deferred function runs (recover() ends the panic) and safeEval
\* returns its named results.
SafeEvalDeferred ==
  /\ se.pc = "deferred"
  /\ LET err == safeEvalDeferred(se.panicking, se.err) IN
       se' = [se EXCEPT !.pc = "returned", !.panicking = Nil, !.err = err,
                        !.ret = Ptr([resultSet |-> se.resultSet, err |-> err])]
  /\ UNCHANGED <<newVars, evalVars, last, px, co>>

\* The caller has taken the results.
SafeEvalEnd ==
  /\ se.pc = "returned"
  /\ se' = SafeEvalIdle
  /\ UNCHANGED <<newVars, evalVars, last, px, co>>

----------------------------------------------------------------------------
\* The proxy: New, OnConfigChange step by step, ServeHTTP.

\* proxy.New(cfg): on an error of newProxyStateFromConfig it returns
\* (nil, err) and the process is left with a nil *Proxy.
ProxyNew ==
  /\ px.pc = "start"
  /\ \E cfg \in ProxyConfigs :
       LET r == newProxyStateFromConfig(cfg) IN
       px' = IF r.err # NoErr
               THEN [px EXCEPT !.pc = "idle"]
               ELSE [px EXCEPT !.pc = "idle", !.p = Ptr(NewProxy(r.state, 1)),
                               !.routers = 1, !.lastGood = Ptr(cfg)]
  /\ UNCHANGED <<newVars, evalVars, last, se, co>>

\* OnConfigChange(ctx, cfg) is called: on a nil Proxy it returns at once,
\* else p.currentOptions.Store(cfg.Options) (lines 90-94). lastGood is the
\* last config given to a non-nil Proxy whose options validate.
ProxyOnConfigChange ==
  /\ px.pc = "idle" /\ px.calls < MaxConfigChanges
  /\ \E cfg \in ProxyConfigs :
       px' = IF px.p = Nil
               THEN [px EXCEPT !.calls = @ + 1, !.cfg = Ptr(cfg)]
               ELSE [px EXCEPT !.calls = @ + 1, !.cfg = Ptr(cfg), !.pc = "setHandlers",
                               !.p = Ptr([Deref(@) EXCEPT !.currentOptions = cfg.Options]),
                               !.lastGood = IF ValidateOptions(cfg.Options) = NoErr
                                              THEN Ptr(cfg) ELSE @]
  /\ UNCHANGED <<newVars, evalVars, last, se, co>>

\* setHandlers, failing on options with no policies (mutant).
setHandlers_FailsWithoutPolicies(p, opts, n) ==
  IF opts.policies = 0
    THEN [p |-> p, err |-> "no policies"]
    ELSE LET r == registerDashboardHandlers(
                    [NewRouter(n) EXCEPT !.handlers = {"NotFound", "/robots.txt"}])
         IN [p |-> [p EXCEPT !.currentRouter = r], err |-> NoErr]

\* setHandlers (lines 105-121): a new router with the not-found handler,
\* robots.txt and the dashboard handlers is stored; the error is always nil.
setHandlers(p, opts, n) ==
  LET r == registerDashboardHandlers(
             [NewRouter(n) EXCEPT !.handlers = {"NotFound", "/robots.txt"}])
  IN [p |-> [p EXCEPT !.currentRouter = r], err |-> NoErr]

\* OnConfigChange: p.setHandlers(cfg.Options), whose error is only logged
\* (lines 95-97).
ProxySetHandlers ==
  /\ px.pc = "setHandlers"
  /\ LET h == setHandlers(Deref(px.p), Deref(px.cfg).Options, px.routers + 1) IN
       px' = [px EXCEPT !.pc = "state", !.p = Ptr(h.p), !.routers = @ + 1]
  /\ UNCHANGED <<newVars, evalVars, last, se, co>>

\* The state of the proxy after lines 98-102, storing whatever
\* newProxyStateFromConfig returned (mutant).
OnConfigChangeState_StoredOnError(state, r) == r.state

\* The state of the proxy after lines 98-102: the new state is stored only
\* when newProxyStateFromConfig returned no error.
OnConfigChangeState(state, r) == IF r.err # NoErr THEN state ELSE r.state

\* OnConfigChange: newProxyStateFromConfig(cfg), p.state.Store(state) on
\* success, and the return (lines 98-103).
ProxyStoreState ==
  /\ px.pc = "state"
  /\ LET r == newProxyStateFromConfig(Deref(px.cfg)) IN
       px' = [px EXCEPT !.pc = "idle",
                        !.p = Ptr([Deref(@) EXCEPT !.state = OnConfigChangeState(@, r)])]
  /\ UNCHANGED <<newVars, evalVars, last, se, co>>

\* ServeHTTP (lines 123-125): the request is served by the router loaded
\* from p.currentRouter.
ProxyServeHTTP ==
  /\ px.p # Nil
  /\ px' = [px EXCEPT !.served = Deref(px.p).currentRouter.id]
  /\ UNCHANGED <<newVars, evalVars, last, se, co>>

----------------------------------------------------------------------------
\* carryOverJWTAssertion on header maps of every shape.

\* carryOverJWTAssertion(dst, src) is called; dst0 and src0 keep the maps
\* as they are at the call.
CarryOverCall ==
  /\ co.pc = "idle"
  /\ \E dst \in OutboundHeaders, src \in InboundHeaders :
       co' = [pc |-> "called", dst |-> dst, src |-> src, dst0 |-> dst, src0 |-> src]
  /\ UNCHANGED <<newVars, evalVars, last, se, px>>

\* The body of carryOverJWTAssertion: it writes dst and reads src.
CarryOverReturn ==
  /\ co.pc = "called"
  /\ co' = [co EXCEPT !.pc = "returned", !.dst = carryOverJWTAssertion(co.dst, co.src)]
  /\ UNCHANGED <<newVars, evalVars, last, se, px>>

\* The caller goes on.
CarryOverEnd ==
  /\ co.pc = "returned"
  /\ co' = CarryOverIdle
  /\ UNCHANGED <<newVars, evalVars, last, se, px>>

----------------------------------------------------------------------------
\* The reloads with requests beside them.
Next ==
  \/ NewBegin
  \/ UpdateStoreGetJWK
  \/ UpdateStoreServiceAccount
  \/ UpdateStoreClaimHeaders
  \/ UpdateStoreRoutePolicies
  \/ UpdateStoreSigningKey
  \/ NewHeadersEvaluator
  \/ NewPolicyLoop
  \/ NewReturn
  \/ EvaluateBeginReload
  \/ PolicyUnitStart
  \/ PolicyUnitEvaluate
  \/ HeadersUnit
  \/ EvaluateWait
  \/ EvaluateEnd

Spec == Init /\ [][Next]_vars

\* Requests of every shape on the Evaluator of start-up, with no reload.
NextEvaluate ==
  \/ EvaluateBeginAny
  \/ PolicyUnitStart
  \/ PolicyUnitEvaluate
  \/ HeadersUnit
  \/ EvaluateWait
  \/ EvaluateEnd

SpecEvaluate == InitEvaluate /\ [][NextEvaluate]_vars

\* Requests evaluated again and again on the Evaluator of start-up.
NextRepeat ==
  \/ EvaluateBeginRepeat
  \/ PolicyUnitStart
  \/ PolicyUnitEvaluate
  \/ HeadersUnit
  \/ EvaluateWait
  \/ EvaluateEndKeep

SpecRepeat == InitEvaluate /\ [][NextRepeat]_vars

\* Calls of safeEval, with every answer and every panic of the rule engine.
NextSafeEval ==
  \/ SafeEvalCall
  \/ SafeEvalReturns
  \/ SafeEvalPanics
  \/ SafeEvalDeferred
  \/ SafeEvalEnd

SpecSafeEval == Init /\ [][NextSafeEval]_vars

\* The proxy from its construction on, with config changes and requests.
NextProxy ==
  \/ ProxyNew
  \/ ProxyOnConfigChange
  \/ ProxySetHandlers
  \/ ProxyStoreState
  \/ ProxyServeHTTP

SpecProxy == Init /\ [][NextProxy]_vars

\* Calls of carryOverJWTAssertion.
NextCarryOver ==
  \/ CarryOverCall
  \/ CarryOverReturn
  \/ CarryOverEnd

SpecCarryOver == Init /\ [][NextCarryOver]_vars

----------------------------------------------------------------------------
\* The properties.

Request == Deref(req)
Reserved(path) == path \in {"/.pomerium/webauthn", "/.pomerium/jwt"}

\* A non-internal request with no policy, or whose policy's route id has no
\* PolicyEvaluator in the Evaluator it is evaluated on.
Unmatched ==
  /\ req # Nil /\ ~Request.IsInternal
  /\ \/ Request.Policy = Nil
     \/ /\ Request.Policy # Nil
        /\ RouteID(Deref(Request.Policy)).err = NoErr
        /\ RouteID(Deref(Request.Policy)).id \notin DOMAIN Deref(reqEv).policyEvaluators

\* The request is not internal, carries a policy, and the route id of the
\* policy is registered in the Evaluator the request is evaluated on.
Matched ==
  /\ req # Nil /\ ~Request.IsInternal /\ Request.Policy # Nil
  /\ RouteID(Deref(Request.Policy)).err = NoErr
  /\ RouteID(Deref(Request.Policy)).id \in DOMAIN Deref(reqEv).policyEvaluators

\* C1: for a non-internal request with no policy or with an unregistered
\* route id, the policy unit answers, and every Result Evaluate returns has,
\* Deny = (true, [RouteNotFound]) and Allow unset; the same in both cases.
C1_UnmatchedRouteIsDenied ==
  Unmatched =>
    /\ polPc = "done" =>
         /\ policyOutput # Nil
         /\ Deref(policyOutput).Deny = [Value |-> TRUE, Reasons |-> <<"route-not-found">>]
         /\ Deref(policyOutput).Allow = [Value |-> FALSE, Reasons |-> <<>>]
    /\ (evalPc = "returned" /\ result # Nil) =>
         /\ Deref(result).Deny = [Value |-> TRUE, Reasons |-> <<"route-not-found">>]
         /\ Deref(result).Allow = [Value |-> FALSE, Reasons |-> <<>>]

\* Evaluate has returned a Result for a request whose policy is there but
\* whose route id is not registered.
C1_Witness ==
  /\ Unmatched /\ Request.Policy # Nil /\ evalPc = "returned" /\ result # Nil
  /\ Deref(result).Deny.Value

\* An internal request that needs no logged-in user, or has one.
InternalOpen ==
  /\ req # Nil /\ Request.IsInternal
  /\ (~Reserved(Request.HTTP.Path) \/ Request.Session.ID # "")

\* C2: for an internal request off the two reserved paths, or on one with a
\* non-empty session id, the policy unit answers, and every Result Evaluate
\* returns has, Allow = (true, [PomeriumRoute]) and Deny unset.
C2_InternalIsAllowed ==
  InternalOpen =>
    /\ polPc = "done" =>
         /\ policyOutput # Nil
         /\ Deref(policyOutput).Allow = [Value |-> TRUE, Reasons |-> <<"pomerium-route">>]
         /\ Deref(policyOutput).Deny = [Value |-> FALSE, Reasons |-> <<>>]
    /\ (evalPc = "returned" /\ result # Nil) =>
         /\ Deref(result).Allow = [Value |-> TRUE, Reasons |-> <<"pomerium-route">>]
         /\ Deref(result).Deny = [Value |-> FALSE, Reasons |-> <<>>]

\* Evaluate has returned a Result for an internal request with an empty
\* session id, a policy and a certificate, off the reserved paths.
C2_Witness ==
  /\ InternalOpen /\ ~Reserved(Request.HTTP.Path) /\ Request.Session.ID = ""
  /\ Request.Policy # Nil /\ Request.HTTP.ClientCertificate.Presented
  /\ evalPc = "returned" /\ result # Nil

\* An internal request on a reserved path with an empty session id.
InternalLoginRequired ==
  /\ req # Nil /\ Request.IsInternal
  /\ Reserved(Request.HTTP.Path) /\ Request.Session.ID = ""

\* C3: for an internal request on a reserved path with an empty session id,
\* the policy unit answers, and every Result Evaluate returns has,
\* Allow = (false, [UserUnauthenticated]) and Deny unset; Allow is never true.
C3_InternalUnauthenticated ==
  InternalLoginRequired =>
    /\ polPc = "done" =>
         /\ policyOutput # Nil
         /\ Deref(policyOutput).Allow = [Value |-> FALSE, Reasons |-> <<"user-unauthenticated">>]
         /\ Deref(policyOutput).Deny = [Value |-> FALSE, Reasons |-> <<>>]
    /\ (evalPc = "returned" /\ result # Nil) =>
         /\ Deref(result).Allow = [Value |-> FALSE, Reasons |-> <<"user-unauthenticated">>]
         /\ Deref(result).Deny = [Value |-> FALSE, Reasons |-> <<>>]

\* Evaluate has returned a Result for such a request on the jwt path.
C3_Witness ==
  /\ InternalLoginRequired /\ Request.HTTP.Path = "/.pomerium/jwt"
  /\ evalPc = "returned" /\ result # Nil /\ ~Deref(result).Allow.Value

\* An internal request, or an unmatched one.
DecidedWithoutRules == (req # Nil /\ Request.IsInternal) \/ Unmatched

\* C4 as stated: for every internal request and every unmatched request,
\* Evaluate returns a Result and a nil error.
C4_AlwaysAResult ==
  (DecidedWithoutRules /\ evalPc = "returned") => (result # Nil /\ retErr = NoErr)

\* C4 as amended: for these requests the policy unit returns a
\* PolicyResponse and a nil error, and Evaluate returns a Result and a nil
\* error unless the header unit failed, and then that error and no Result.
C4_NoErrorButTheHeaderUnits ==
  DecidedWithoutRules =>
    /\ polPc = "done" => (policyOutput # Nil /\ unitErr.policy = NoErr)
    /\ evalPc = "returned" =>
         /\ retErr = unitErr.headers
         /\ (retErr = NoErr) = (result # Nil)

\* Evaluate has returned a Result and a nil error for an unmatched request
\* with a policy.
C4_Witness ==
  /\ Unmatched /\ Request.Policy # Nil /\ evalPc = "returned"
  /\ result # Nil /\ retErr = NoErr

\* C5: when the policy unit or the header unit returned an error, Evaluate
\* returns a nil Result and a non-nil error; it returns a Result only when
\* both units returned without error.
C5_ErrorIsNeverADecision ==
  evalPc = "returned" =>
    /\ (unitErr.policy # NoErr \/ unitErr.headers # NoErr) => (result = Nil /\ retErr # NoErr)
    /\ result # Nil => (unitErr.policy = NoErr /\ unitErr.headers = NoErr /\ retErr = NoErr)

\* Evaluate has returned after the certificate validation failed while the
\* header unit succeeded.
C5_Witness ==
  /\ evalPc = "returned" /\ unitErr.policy = "cert" /\ unitErr.headers = NoErr
  /\ result = Nil /\ retErr = "cert"

\* C6 as stated: no request uses the route policies of one snapshot (the
\* PolicyEvaluators of its Evaluator) together with the signing key of
\* another (the store's key when the header unit signs).
C6_NoMixedSnapshots ==
  (obs.policies # 0 /\ obs.key # 0) => obs.policies = obs.key

\* C7 as stated: when New returns an error, the store is what it was when
\* New was called.
C7_FailedNewLeavesStore ==
  newPc = "failed" => store = Deref(storeBefore)

\* C10 as stated: a construction changes the store's signing key only if
\* its config supplies signing-key bytes, other than those in force.
C10_KeyChangesOnlyWithNewBytes ==
  (newPc \in {"newHeadersEvaluator", "policies", "done", "failed"}
     /\ store.signingKey # Deref(storeBefore).signingKey)
    => (newCfg.signingKey # "" /\ <<"key", newCfg.signingKey>> # Deref(storeBefore).signingKey)

InboundHas(k) == k \in DOMAIN Request.HTTP.Headers /\ Request.HTTP.Headers[k] # ""

\* C8: after the header evaluation, the outbound assertion-for header holds
\* the inbound assertion-for value if that is there and non-empty (whatever
\* the plain assertion header is); else the inbound plain assertion value if
\* that is there and non-empty; else nothing.
C8_CarryOverSelection ==
  (hdrPc = "done" /\ headersOutput # Nil) =>
    LET out == Deref(headersOutput).Headers["X-Pomerium-Jwt-Assertion-For"] IN
    /\ InboundHas("X-Pomerium-Jwt-Assertion-For")
         => out = <<Request.HTTP.Headers["X-Pomerium-Jwt-Assertion-For"]>>
    /\ (~InboundHas("X-Pomerium-Jwt-Assertion-For") /\ InboundHas("X-Pomerium-Jwt-Assertion"))
         => out = <<Request.HTTP.Headers["X-Pomerium-Jwt-Assertion"]>>
    /\ (~InboundHas("X-Pomerium-Jwt-Assertion-For") /\ ~InboundHas("X-Pomerium-Jwt-Assertion"))
         => out = <<>>

\* The header unit has answered a request that carries both headers,
\* non-empty and different.
C8_Witness ==
  /\ hdrPc = "done" /\ headersOutput # Nil
  /\ InboundHas("X-Pomerium-Jwt-Assertion-For") /\ InboundHas("X-Pomerium-Jwt-Assertion")
  /\ Deref(headersOutput).Headers["X-Pomerium-Jwt-Assertion-For"] = <<"A">>

PolicyEvaluatorCalls == {k \in DOMAIN calls : calls[k][1] = "PolicyEvaluator.Evaluate"}

\* C9: when isValidClientCertificate returned an error, PolicyEvaluator.Evaluate
\* is never called and Evaluate returns an error; when it returned false
\* without error, the policy unit goes on to PolicyEvaluator.Evaluate, which
\* is called with IsValidClientCertificate = false.
C9_FaultIsNotInvalid ==
  certFact # <<>> =>
    /\ certFact[1].err # NoErr =>
         /\ PolicyEvaluatorCalls = {}
         /\ polPc = "done" /\ unitErr.policy # NoErr
         /\ evalPc = "returned" => (result = Nil /\ retErr # NoErr)
    /\ (certFact[1].err = NoErr /\ ~certFact[1].valid) =>
         /\ unitErr.policy \notin {"cert", "clientca", "routeid"}
         /\ polPc \in {"evaluate", "done"}
         /\ polPc = "done" => PolicyEvaluatorCalls # {}
         /\ \A k \in PolicyEvaluatorCalls : calls[k][2] = FALSE

\* PolicyEvaluator.Evaluate has been called for a presented certificate that
\* validation found invalid.
C9_Witness ==
  /\ certFact # <<>> /\ certFact[1].err = NoErr /\ ~certFact[1].valid
  /\ Request.HTTP.ClientCertificate.Presented
  /\ polPc = "done" /\ PolicyEvaluatorCalls # {}

\* The traces a unit's output carries (none when it has no such field).
TracesOf(out) == IF "Traces" \in DOMAIN out THEN out.Traces ELSE <<>>

\* C11 as stated: the Result Evaluate returns has the Allow and Deny of the
\* policy unit's output, and the Headers and the Traces of the header
\* unit's output.
C11_TracesFromHeaderUnit ==
  (evalPc = "returned" /\ result # Nil) =>
    /\ Deref(result).Allow = Deref(policyOutput).Allow
    /\ Deref(result).Deny = Deref(policyOutput).Deny
    /\ Deref(result).Headers = Deref(headersOutput).Headers
    /\ Deref(result).Traces = TracesOf(Deref(headersOutput))

\* C11, amended: the Result Evaluate returns has the Allow, the Deny and
\* the Traces of the policy unit's output, and the Headers of the header
\* unit's output, which are the headers HeadersEvaluator.Evaluate answered
\* with the carry-over applied to them.
C11_MergeOfBothUnits ==
  (evalPc = "returned" /\ result # Nil) =>
    /\ policyOutput # Nil /\ headersOutput # Nil
    /\ Deref(result).Allow = Deref(policyOutput).Allow
    /\ Deref(result).Deny = Deref(policyOutput).Deny
    /\ Deref(result).Traces = Deref(policyOutput).Traces
    /\ Deref(result).Headers = Deref(headersOutput).Headers
    /\ Deref(result).Headers =
         carryOverJWTAssertion(
           HeadersEvaluatorEvaluate(store, HeadersRequest(Request)).Headers,
           Request.HTTP.Headers)

\* A Result with the trace of the rule evaluation and a carried-over
\* assertion.
C11_Witness ==
  /\ evalPc = "returned" /\ result # Nil
  /\ Deref(result).Traces # <<>> /\ TracesOf(Deref(headersOutput)) = <<>>
  /\ Deref(result).Headers["X-Pomerium-Jwt-Assertion-For"] # <<>>
  /\ Deref(result).Allow.Value

\* The request was evaluated before, and its evaluation has returned again.
Repeated == last # Nil /\ evalPc = "returned" /\ Request = Deref(last).req

\* Whether the calls of PolicyEvaluator.Evaluate and HeadersEvaluator.Evaluate
\* failed (a cancelled context, a fault of theirs), per unit.
CollaboratorFailures(ue) ==
  [policy |-> ue.policy = "evaluation", headers |-> ue.headers = "headers"]

ValidationCalls ==
  {k \in DOMAIN calls : calls[k][1] \in {"getClientCA", "isValidClientCertificate"}}

\* C13: getClientCA, isValidClientCertificate and PolicyEvaluator.Evaluate
\* are called only for a request that is not internal, carries a policy and
\* whose route id is registered; for an internal request, a request with no
\* policy and a request with an unregistered route id none of them is ever
\* called.
C13_RulesOnlyForMatched ==
  (ValidationCalls # {} \/ PolicyEvaluatorCalls # {}) => Matched

\* An internal request carrying a policy of a registered route with a
\* client certificate, and a request for an unregistered route, have
\* returned with the header evaluation as their only collaborator call.
C13_Witness ==
  /\ evalPc = "returned" /\ req # Nil /\ Request.Policy # Nil
  /\ RouteID(Deref(Request.Policy)).err = NoErr
  /\ Request.HTTP.ClientCertificate.Presented
  /\ (Request.IsInternal \/ Unmatched)
  /\ calls = <<<<"HeadersEvaluator.Evaluate">>>>

\* C14: every call of PolicyEvaluator.Evaluate comes after a call of
\* isValidClientCertificate of the same request that returned without
\* error, and the IsValidClientCertificate it is given is the boolean that
\* isValidClientCertificate returns for the request's certificate and its
\* effective client CA.
C14_ValidationPrecedesEvaluation ==
  \A k \in PolicyEvaluatorCalls :
    /\ \E j \in 1..(k - 1) : calls[j][1] = "isValidClientCertificate"
    /\ certFact # <<>> /\ certFact[1].err = NoErr
    /\ calls[k][2] = certFact[1].valid

\* PolicyEvaluator.Evaluate has answered a request whose certificate
\* validated against the CA of its route.
C14_Witness ==
  /\ polPc = "done" /\ policyOutput # Nil /\ PolicyEvaluatorCalls # {}
  /\ certFact # <<>> /\ certFact[1].valid
  /\ Request.Policy = Ptr(PACa) /\ Request.HTTP.ClientCertificate.Presented

\* The route-specific client CA of the request's policy, as configured.
RouteCA == Deref(Request.Policy).TLSDownstreamClientCA

\* C19: isValidClientCertificate is given the decoded route-specific client
\* CA when the policy has a non-empty one (never the global one), and the
\* Evaluator's global client CA when it is empty; for a matched request
\* whose route-specific CA is not valid base64 neither
\* isValidClientCertificate nor PolicyEvaluator.Evaluate is called, the
\* policy unit returns the decoding error and Evaluate returns an error
\* and no Result.
C19_EffectiveClientCA ==
  /\ \A k \in DOMAIN calls :
       calls[k][1] = "isValidClientCertificate" =>
         /\ RouteCA = "" => calls[k][2] = Deref(reqEv).clientCA
         /\ RouteCA # "" => (B64Decode(RouteCA).err = NoErr /\ calls[k][2] = B64Decode(RouteCA).bs)
         /\ RouteCA = "Y2Ey" => (calls[k][2] = "ca2" /\ calls[k][2] # Deref(reqEv).clientCA)
  /\ (Matched /\ RouteCA = "!!") =>
       /\ \A k \in DOMAIN calls :
            calls[k][1] \notin {"isValidClientCertificate", "PolicyEvaluator.Evaluate"}
       /\ polPc = "done" => (policyOutput = Nil /\ unitErr.policy # NoErr)
       /\ evalPc = "returned" => (result = Nil /\ retErr # NoErr)

\* A request whose route has its own client CA has presented a leaf of the
\* global CA: it was validated against the route's CA and found invalid.
C19_Witness ==
  /\ evalPc = "returned" /\ result # Nil
  /\ Request.Policy = Ptr(PACa) /\ Request.HTTP.ClientCertificate = Cert("leaf1")
  /\ Deref(reqEv).clientCA = "ca1"
  /\ \E k \in DOMAIN calls : calls[k] = <<"isValidClientCertificate", "ca2">>
  /\ certFact # <<>> /\ ~certFact[1].valid

\* C16: while Evaluate runs, a unit that returns an error cancels the
\* context; the first such error is recorded and no later error of the
\* sibling replaces it; and the error Evaluate returns is the recorded one,
\* that of the unit that failed first.
C16_FirstErrorWins ==
  [][evalPc = "running" =>
       /\ egErr # NoErr => egErr' = egErr
       /\ (unitErr'.policy # unitErr.policy /\ unitErr'.policy # NoErr) =>
            (ctxDone' /\ egErr' = (IF egErr = NoErr THEN unitErr'.policy ELSE egErr))
       /\ (unitErr'.headers # unitErr.headers /\ unitErr'.headers # NoErr) =>
            (ctxDone' /\ egErr' = (IF egErr = NoErr THEN unitErr'.headers ELSE egErr))
       /\ (egErr = NoErr /\ egErr' # NoErr) =>
            (unitErr' # unitErr /\ egErr' \in {unitErr'.policy, unitErr'.headers})
       /\ evalPc' = "returned" => retErr' = egErr]_vars

\* Both units failed, the header unit first: Evaluate returned the header
\* unit's error and dropped that of PolicyEvaluator.Evaluate.
C16_Witness ==
  /\ evalPc = "returned" /\ ctxDone
  /\ unitErr.headers = "headers" /\ unitErr.policy = "evaluation"
  /\ retErr = "headers" /\ result = Nil

\* The calls of HeadersEvaluator.Evaluate made so far for this request.
HeadersEvaluatorCalls ==
  {k \in DOMAIN calls : calls[k][1] = "HeadersEvaluator.Evaluate"}

\* C15 as stated: for a matched request, HeadersEvaluator.Evaluate is
\* started only after isValidClientCertificate has returned without error.
C15_HeadersAfterValidation ==
  Matched =>
    \A k \in HeadersEvaluatorCalls :
      /\ \E j \in 1..(k - 1) : calls[j][1] = "isValidClientCertificate"
      /\ certFact # <<>> /\ certFact[1].err = NoErr

\* C17 as stated: once a unit has returned an error, Evaluate can return
\* it, whether or not the sibling unit has finished.
C17_ReturnsAtFirstFailure ==
  (evalPc = "running" /\ egErr # NoErr) => ENABLED EvaluateWait

\* C18: while Evaluate runs, a step of the policy unit leaves the header
\* unit's output, error and position unchanged, and a step of the header
\* unit leaves the policy unit's output, error, position and local fact
\* unchanged; no step of Evaluate changes the Request (its inbound header
\* map included), the Evaluator it was called on, the current Evaluator or
\* the store; and the Result is built only once both units have returned.
C18_UnitsShareNoState ==
  [][evalPc = "running" =>
       /\ polPc' # polPc =>
            /\ headersOutput' = headersOutput /\ hdrPc' = hdrPc
            /\ unitErr'.headers = unitErr.headers
       /\ hdrPc' # hdrPc =>
            /\ policyOutput' = policyOutput /\ polPc' = polPc
            /\ unitErr'.policy = unitErr.policy /\ validFact' = validFact
       /\ evalVars' # evalVars =>
            /\ req' = req /\ reqEv' = reqEv
            /\ ev' = ev /\ store' = store
       /\ result' # result => (polPc = "done" /\ hdrPc = "done")]_vars

\* The header unit has written its headers while the policy unit is
\* between the certificate validation and PolicyEvaluator.Evaluate, and a
\* reload is under way.
C18_Witness ==
  /\ evalPc = "running" /\ polPc = "evaluate" /\ hdrPc = "done"
  /\ headersOutput # Nil /\ policyOutput = Nil
  /\ calls[Len(calls)] = <<"HeadersEvaluator.Evaluate">>
  /\ newPc = "policies" /\ ev = Deref(reqEv)

\* C20: a call of safeEval in which q.Eval panicked returns a non-nil
\* error (the fault is never taken for a successful evaluation).
C20_FaultIsAnError ==
  (se.pc = "returned" /\ se.faulted) => Deref(se.ret).err # Nil

\* C21: while New runs with signing-key bytes that do not decode, no step
\* changes the store (none of its four fields) or the Evaluator requests
\* are served with, and New goes from getJWK to its failure and returns;
\* and the store holds a decoded signing key at every moment.
C21_BadKeyLeavesStore ==
  [][/\ (newPc # "idle" /\ newCfg.signingKey = "bad") =>
          /\ store' = store /\ storeSnap' = storeSnap /\ ev' = ev
          /\ newPc \in {"getJWK", "failed"}
          /\ newPc' \in {"getJWK", "failed", "idle"}
     /\ store'.signingKey[1] = "key"]_vars

\* New has failed on signing-key bytes that do not decode, with a config
\* whose service account and claim headers differ from the store's, and
\* the store is what it was.
C21_Witness ==
  /\ newPc = "failed" /\ newCfg.signingKey = "bad"
  /\ newCfg.serviceAccount # store.serviceAccount
  /\ newCfg.jwtClaimsHeaders # store.claimHeaders
  /\ store = Deref(storeBefore) /\ ev.snap = 1

\* The Proxy, its config of the running or last OnConfigChange, and
\* whether newProxyStateFromConfig fails on that config.
TheProxy == Deref(px.p)
ProxyCfg == Deref(px.cfg)
ProxyCfgFails == ValidateOptions(ProxyCfg.Options) # NoErr

\* C22: whenever no OnConfigChange is running, the state of a non-nil Proxy
\* is the one built from the last config whose state construction
\* succeeded (that of New if no later one did); no step of an
\* OnConfigChange whose state construction fails changes p.state; and a
\* nil Proxy stays nil through OnConfigChange.
C22_LastGoodState ==
  [][/\ (px'.pc = "idle" /\ px'.p # Nil) =>
          Deref(px'.p).state = Ptr([from |-> Deref(px'.lastGood).Options])
     /\ (px.pc \in {"setHandlers", "state"} /\ ProxyCfgFails) =>
          Deref(px'.p).state = TheProxy.state
     /\ (px.pc = "idle" /\ px.p = Nil) => (px'.p = Nil /\ px'.pc = "idle")]_vars

\* Two config changes have returned, the last with options that do not
\* validate: the Proxy holds the state of an earlier config, not of the
\* last.
C22_Witness ==
  /\ px.pc = "idle" /\ px.p # Nil /\ px.calls = 2 /\ ProxyCfgFails
  /\ px.lastGood # px.cfg
  /\ TheProxy.state = Ptr([from |-> Deref(px.lastGood).Options])
  /\ TheProxy.currentOptions # Deref(px.lastGood).Options

\* C23: on a non-nil Proxy OnConfigChange stores the options of its config
\* first, then a router built in this call (with its state still the
\* previous one), then the state; once it has returned, currentOptions is
\* the config's options and currentRouter the router built last, whether
\* or not the state construction succeeded.
C23_OptionsRouterState ==
  [][/\ (px.pc = "idle" /\ px'.pc = "setHandlers") =>
          /\ Deref(px'.p).currentOptions = Deref(px'.cfg).Options
          /\ Deref(px'.p).currentRouter = TheProxy.currentRouter
          /\ Deref(px'.p).state = TheProxy.state
     /\ (px.pc = "setHandlers" /\ px'.pc # "setHandlers") =>
          /\ px'.pc = "state"
          /\ Deref(px'.p).currentOptions = ProxyCfg.Options
          /\ Deref(px'.p).currentRouter.id > px.routers
          /\ Deref(px'.p).currentRouter.handlers = {"NotFound", "/robots.txt", "/.pomerium"}
          /\ Deref(px'.p).state = TheProxy.state
     /\ (px.pc = "state" /\ px'.pc # "state") =>
          /\ px'.pc = "idle"
          /\ Deref(px'.p).currentOptions = ProxyCfg.Options
          /\ Deref(px'.p).currentRouter = TheProxy.currentRouter
     /\ (px'.pc = "idle" /\ px'.p # Nil /\ px'.calls > 0) =>
          /\ Deref(px'.p).currentOptions = Deref(px'.cfg).Options
          /\ Deref(px'.p).currentRouter.id = px'.routers
          /\ px'.routers = 1 + px'.calls]_vars

\* An OnConfigChange whose state construction failed has returned, and a
\* request was served since: by the router of this call, under the options
\* of this config, with the state of an earlier config.
C23_Witness ==
  /\ px.pc = "idle" /\ px.p # Nil /\ px.calls > 0 /\ ProxyCfgFails
  /\ TheProxy.currentOptions = ProxyCfg.Options
  /\ TheProxy.currentRouter.id = 1 + px.calls
  /\ px.served = TheProxy.currentRouter.id
  /\ Deref(TheProxy.state).from # ProxyCfg.Options

\* src has a non-empty value under k.
SrcHas(k) == k \in DOMAIN co.src0 /\ co.src0[k] # ""

\* C24: after carryOverJWTAssertion(dst, src), every header of dst other
\* than assertion-for is what it was; assertion-for holds the values it
\* held, in their order, followed by at most one more; src is what it was;
\* and when src has a non-empty value under neither assertion header, dst
\* is entirely what it was.
C24_CarryOverFrame ==
  co.pc = "returned" =>
    LET F == "X-Pomerium-Jwt-Assertion-For"
        n == Len(co.dst0[F])
    IN /\ DOMAIN co.dst = DOMAIN co.dst0
       /\ \A k \in DOMAIN co.dst0 \ {F} : co.dst[k] = co.dst0[k]
       /\ Len(co.dst[F]) \in {n, n + 1}
       /\ \A i \in 1..n : co.dst[F][i] = co.dst0[F][i]
       /\ co.src = co.src0
       /\ (~SrcHas(F) /\ ~SrcHas("X-Pomerium-Jwt-Assertion")) => co.dst = co.dst0

\* The header evaluation had produced two values under assertion-for and a
\* value under the two other headers; the inbound assertion was appended
\* as a third.
C24_Witness ==
  /\ co.pc = "returned"
  /\ co.dst0["X-Pomerium-Jwt-Assertion-For"] = <<"E", "F">>
  /\ co.dst["X-Pomerium-Jwt-Assertion-For"] = <<"E", "F", "B">>
  /\ \A k \in DOMAIN co.dst0 : co.dst0[k] # <<>>
  /\ ~SrcHas("X-Pomerium-Jwt-Assertion-For")

====
